---- MODULE Spec2Model ----
(***************************************************************************)
(* A state-machine model of dashboard.py, the Streamlit script of the      *)
(* Olist dashboard.  One run of the script is the chain of actions         *)
(*   Discover -> LoadData -> Sidebar -> FilterMain -> Kpi -> RfmRevenue    *)
(*   -> RfmSegment -> RfmAvg -> StatePerformance -> CustomerMap            *)
(* and Rerun is Streamlit running the script again after the user has      *)
(* touched a widget.                                                       *)
(*                                                                         *)
(* Encoding of pandas values:                                              *)
(*   - text columns hold strings, a missing value is the string NaN;       *)
(*   - order_purchase_timestamp is a number of ticks, NaT is missing;      *)
(*   - coordinates are naturals, NaNf is missing;                          *)
(*   - a row carries its index label, so that rows equal in every column   *)
(*     stay distinct, as they are in a DataFrame;                          *)
(*   - a nullable number (pd.NA) is <<>> or <<v>>, a quotient is the pair  *)
(*     [num, den] (exact, compared by cross multiplication).               *)
(***************************************************************************)
EXTENDS Integers, Sequences, FiniteSets, TLC

VARIABLES
    files,            \* the directory DATA_DIR: file name -> its content
    cache,            \* st.cache_data of load_data: path -> DataFrame
    ui,               \* the widgets' session state: <<>> before the user touched any
    np_random,        \* numpy's process-global generator state
    pc,               \* position of the script
    page,             \* the elements rendered so far in this run
    DATA_PATH,
    columns, df,      \* df.columns and the rows of df
    min_date, max_date,
    start_date, end_date,
    state_opt, state,
    seg_opt, seg,
    df_f,
    total_revenue, total_orders, total_customers, aov,
    seg_rev_df, seg_cnt_df, avg_rev_df,
    state_perf, fig4, state_perf_by_orders, fig5,
    df_map,
    prev_map          \* history: the input and the output of the last run's map sample

env == <<files, cache, ui, np_random>>
loaded == <<DATA_PATH, columns, df>>
sidebar == <<min_date, max_date, start_date, end_date, state_opt, state, seg_opt, seg>>
kpis == <<total_revenue, total_orders, total_customers, aov>>
rfm == <<seg_rev_df, seg_cnt_df, avg_rev_df>>
statev == <<state_perf, fig4, state_perf_by_orders, fig5>>
vars == <<env, pc, page, loaded, sidebar, df_f, kpis, rfm, statev, df_map, prev_map>>

---------------------------------------------------------------------------
\* Values

NaN == "NaN"
NaT == 0 - 1
NaNf == 0 - 1
NA == <<>>
ALL == "(All)"

\* Ticks of the timestamp per calendar day (the model's clock resolution).
TicksPerDay == 2

\* The strings of the model in code point order, the order of Python's sorted().
CodePointOrder ==
    << "(All)", "AC", "AL", "AM", "AP", "At Risk", "BA", "CE", "Champions",
       "DF", "ES", "GO", "Loyal", "MA", "MG", "MS" >>

Min2(a, b) == IF a <= b THEN a ELSE b

Range(s) == { s[i] : i \in DOMAIN s }

\* ASCII file names: a name is the sequence of its characters' codes.
DotCsv == << 46, 99, 115, 118 >>
MAIN_DATA == << 109, 97, 105, 110, 95, 100, 97, 116, 97 >> \o DotCsv

---------------------------------------------------------------------------
\* Input file discovery

\* Path.__lt__ for two files of one directory: the names, character by character.
RECURSIVE PathLess(_, _)
PathLess(a, b) ==
    IF b = <<>> THEN FALSE
    ELSE IF a = <<>> THEN TRUE
    ELSE IF Head(a) # Head(b) THEN Head(a) < Head(b)
    ELSE PathLess(Tail(a), Tail(b))

\* DATA_DIR.glob("*.csv")
glob_csv(dir) ==
    { n \in DOMAIN dir :
        Len(n) >= Len(DotCsv)
        /\ SubSeq(n, Len(n) - Len(DotCsv) + 1, Len(n)) = DotCsv }

\* Variant: sorted(paths, reverse=True).
RECURSIVE sorted_paths_reverse(_)
sorted_paths_reverse(S) ==
    IF S = {} THEN <<>>
    ELSE LET m == CHOOSE x \in S : \A y \in S \ {x} : PathLess(y, x)
         IN  <<m>> \o sorted_paths_reverse(S \ {m})

\* sorted(paths)
RECURSIVE sorted_paths(_)
sorted_paths(S) ==
    IF S = {} THEN <<>>
    ELSE LET m == CHOOSE x \in S : \A y \in S \ {x} : PathLess(x, y)
         IN  <<m>> \o sorted_paths(S \ {m})

\* The script's variables before its first line has run.
FreshRun ==
    /\ page = <<>>
    /\ DATA_PATH = MAIN_DATA
    /\ columns = {} /\ df = <<>>
    /\ min_date = 0 /\ max_date = 0 /\ start_date = 0 /\ end_date = 0
    /\ state_opt = <<>> /\ state = ALL /\ seg_opt = <<>> /\ seg = ALL
    /\ df_f = <<>>
    /\ total_revenue = 0 /\ total_orders = 0 /\ total_customers = 0
    /\ aov = [num |-> 0, den |-> 1]
    /\ seg_rev_df = <<>> /\ seg_cnt_df = <<>> /\ avg_rev_df = <<>>
    /\ state_perf = <<>> /\ fig4 = <<>> /\ state_perf_by_orders = <<>> /\ fig5 = <<>>
    /\ df_map = <<>>

Discover ==
    /\ pc = "discover"
    /\ IF MAIN_DATA \in DOMAIN files
       THEN /\ DATA_PATH' = MAIN_DATA
            /\ page' = Append(page, "caption")
            /\ pc' = "load"
       ELSE LET csv_files == sorted_paths(glob_csv(files))
            IN  IF csv_files = <<>>
                THEN /\ DATA_PATH' = DATA_PATH
                     /\ page' = Append(page, "error")
                     /\ pc' = "stopped"
                ELSE /\ DATA_PATH' = csv_files[1]
                     /\ page' = Append(page, "caption")
                     /\ pc' = "load"
    /\ UNCHANGED <<env, columns, df, sidebar, df_f, kpis, rfm, statev, df_map, prev_map>>

\* load_data under st.cache_data: the file is read on the first call for a path.
load_data(path, dir, memo) ==
    IF path \in DOMAIN memo THEN memo[path] ELSE dir[path]

LoadData ==
    /\ pc = "load"
    /\ LET data == load_data(DATA_PATH, files, cache)
       IN  /\ columns' = data.columns
           /\ df' = data.rows
           /\ cache' = (DATA_PATH :> data) @@ cache
    /\ pc' = "sidebar"
    /\ UNCHANGED <<files, ui, np_random, page, DATA_PATH, sidebar, df_f, kpis, rfm,
                   statev, df_map, prev_map>>

---------------------------------------------------------------------------
\* Sidebar filter

\* Timestamp.date(): the calendar day of a timestamp.
date(ts) == ts \div TicksPerDay

SetMin(S) == CHOOSE x \in S : \A y \in S : x <= y
SetMax(S) == CHOOSE x \in S : \A y \in S : y <= x

\* Series.min() / Series.max() skip NaT.
timestamps(frame) ==
    { frame[i].order_purchase_timestamp : i \in DOMAIN frame } \ {NaT}

\* sorted(df[col].dropna().unique().tolist())
sorted_unique(frame, col) ==
    LET present == { frame[i][col] : i \in DOMAIN frame } \ {NaN}
    IN  SelectSeq(CodePointOrder, LAMBDA s : s \in present)

\* The script builds the date picker from the first and the last purchase date: a
\* dataset has a parseable purchase timestamp, so the step needs one.
Sidebar ==
    /\ pc = "sidebar"
    /\ timestamps(df) # {}
    /\ LET lo == date(SetMin(timestamps(df)))
           hi == date(SetMax(timestamps(df)))
           so == <<ALL>> \o sorted_unique(df, "customer_state")
           sg == <<ALL>> \o sorted_unique(df, "rfm_segment")
       IN  /\ min_date' = lo
           /\ max_date' = hi
           /\ state_opt' = so
           /\ seg_opt' = sg
           /\ IF ui = <<>>
              THEN /\ start_date' = lo
                   /\ end_date' = hi
                   /\ state' = so[1]
                   /\ seg' = sg[1]
              ELSE /\ start_date' = ui[1].start_date
                   /\ end_date' = ui[1].end_date
                   /\ state' = ui[1].state
                   /\ seg' = ui[1].seg
    /\ page' = page \o << "title", "caption", "date_input", "selectbox", "selectbox" >>
    /\ pc' = "filter"
    /\ UNCHANGED <<env, loaded, df_f, kpis, rfm, statev, df_map, prev_map>>

---------------------------------------------------------------------------
\* Filter main df

\* A comparison with NaT or NaN is False, so such a row is dropped.
\* Variant: the end of the range exclusive (< for <=).
filter_main_exclusive_end(frame, start, end, st, sg) ==
    LET by_date ==
            SelectSeq(frame, LAMBDA r :
                /\ r.order_purchase_timestamp # NaT
                /\ date(r.order_purchase_timestamp) >= start
                /\ date(r.order_purchase_timestamp) < end)
        by_state ==
            IF st # ALL
            THEN SelectSeq(by_date, LAMBDA r : r.customer_state # NaN /\ r.customer_state = st)
            ELSE by_date
    IN  IF sg # ALL
        THEN SelectSeq(by_state, LAMBDA r : r.rfm_segment # NaN /\ r.rfm_segment = sg)
        ELSE by_state

\* Variant: the two date conditions joined by | for &.
filter_main_either(frame, start, end, st, sg) ==
    LET by_date ==
            SelectSeq(frame, LAMBDA r :
                /\ r.order_purchase_timestamp # NaT
                /\ \/ date(r.order_purchase_timestamp) >= start
                   \/ date(r.order_purchase_timestamp) <= end)
        by_state ==
            IF st # ALL
            THEN SelectSeq(by_date, LAMBDA r : r.customer_state # NaN /\ r.customer_state = st)
            ELSE by_date
    IN  IF sg # ALL
        THEN SelectSeq(by_state, LAMBDA r : r.rfm_segment # NaN /\ r.rfm_segment = sg)
        ELSE by_state

filter_main(frame, start, end, st, sg) ==
    LET by_date ==
            SelectSeq(frame, LAMBDA r :
                /\ r.order_purchase_timestamp # NaT
                /\ date(r.order_purchase_timestamp) >= start
                /\ date(r.order_purchase_timestamp) <= end)
        by_state ==
            IF st # ALL
            THEN SelectSeq(by_date, LAMBDA r : r.customer_state # NaN /\ r.customer_state = st)
            ELSE by_date
    IN  IF sg # ALL
        THEN SelectSeq(by_state, LAMBDA r : r.rfm_segment # NaN /\ r.rfm_segment = sg)
        ELSE by_state

FilterMain ==
    /\ pc = "filter"
    /\ df_f' = filter_main(df, start_date, end_date, state, seg)
    /\ pc' = "kpi"
    /\ UNCHANGED <<env, page, loaded, sidebar, kpis, rfm, statev, df_map, prev_map>>

---------------------------------------------------------------------------
\* KPI

\* The sum of f[lo..hi], by halves (a frame may hold thousands of rows).
RECURSIVE SumRange(_, _, _)
SumRange(f, lo, hi) ==
    IF lo > hi THEN 0
    ELSE IF lo = hi THEN f[lo]
    ELSE LET mid == (lo + hi) \div 2
         IN  SumRange(f, lo, mid) + SumRange(f, mid + 1, hi)

\* Series.sum()
sum(frame, col) ==
    SumRange([i \in DOMAIN frame |-> frame[i][col]], 1, Len(frame))

\* Series.nunique(): the distinct values, missing ones not counted.
nunique(frame, col) ==
    Cardinality({ frame[i][col] : i \in DOMAIN frame } \ {NaN})

Quot(n, d) == [num |-> n, den |-> d]
Zero == Quot(0, 1)

\* Variant: the quotient without its guard.
average_order_value_unguarded(revenue, orders) == Quot(revenue, orders)

\* aov = total_revenue / total_orders if total_orders else 0
average_order_value(revenue, orders) ==
    IF orders # 0 THEN Quot(revenue, orders) ELSE Zero

Kpi ==
    /\ pc = "kpi"
    /\ total_revenue' = sum(df_f, "order_revenue")
    /\ total_orders' = nunique(df_f, "order_id")
    /\ total_customers' = nunique(df_f, "customer_unique_id")
    /\ aov' = average_order_value(total_revenue', total_orders')
    /\ page' = page \o << "metric", "metric", "metric", "metric" >>
    /\ pc' = "rfm_revenue"
    /\ UNCHANGED <<env, loaded, sidebar, df_f, rfm, statev, df_map, prev_map>>

---------------------------------------------------------------------------
\* Aggregations

\* df.groupby(key): the groups in ascending key order (sort=True), rows with a
\* missing key in no group (dropna=True).
group_keys(frame, key) == sorted_unique(frame, key)

group(frame, key, k) == SelectSeq(frame, LAMBDA r : r[key] = k)

\* DataFrame.head(n)
head(table, n) == SubSeq(table, 1, Min2(n, Len(table)))

\* sort_values(col, ascending=False) with the default kind, quicksort, which is
\* not stable: every ordering of the rows with the column non-increasing is a
\* possible result.  The rows of a grouped table differ (by their key).
RECURSIVE orderings_desc(_, _)
orderings_desc(S, col) ==
    IF S = {} THEN { <<>> }
    ELSE LET top == { r \in S : \A q \in S : q[col] <= r[col] }
         IN  UNION { { <<r>> \o rest : rest \in orderings_desc(S \ {r}, col) } : r \in top }

Reverse(s) == [ i \in DOMAIN s |-> s[Len(s) + 1 - i] ]

\* Variant: sort_values(col), ascending by default.
sort_values_asc(table, col) == { Reverse(o) : o \in orderings_desc(Range(table), col) }

sort_values_desc(table, col) == orderings_desc(Range(table), col)

\* Series.count(): the rows whose value is not missing.
count(frame, col) == Len(SelectSeq(frame, LAMBDA r : r[col] # NaN))

\* Variant: .count() for .nunique().
create_rfm_segment_df_count(frame) ==
    LET keys == group_keys(frame, "rfm_segment")
        grouped ==
            [ j \in DOMAIN keys |->
                [ rfm_segment |-> keys[j],
                  customers |-> count(group(frame, "rfm_segment", keys[j]),
                                      "customer_unique_id") ] ]
    IN  sort_values_desc(grouped, "customers")

create_rfm_segment_df(frame) ==
    LET keys == group_keys(frame, "rfm_segment")
        grouped ==
            [ j \in DOMAIN keys |->
                [ rfm_segment |-> keys[j],
                  customers |-> nunique(group(frame, "rfm_segment", keys[j]),
                                        "customer_unique_id") ] ]
    IN  sort_values_desc(grouped, "customers")

\* Variant: groupby(..., dropna=False), the rows with a missing key a group too.
create_rfm_revenue_df_keepna(frame) ==
    LET keys == group_keys(frame, "rfm_segment")
                \o (IF \E i \in DOMAIN frame : frame[i].rfm_segment = NaN
                    THEN << NaN >> ELSE <<>>)
        grouped ==
            [ j \in DOMAIN keys |->
                [ rfm_segment |-> keys[j],
                  total_revenue |-> sum(group(frame, "rfm_segment", keys[j]),
                                        "order_revenue") ] ]
    IN  sort_values_desc(grouped, "total_revenue")

create_rfm_revenue_df(frame) ==
    LET keys == group_keys(frame, "rfm_segment")
        grouped ==
            [ j \in DOMAIN keys |->
                [ rfm_segment |-> keys[j],
                  total_revenue |-> sum(group(frame, "rfm_segment", keys[j]),
                                        "order_revenue") ] ]
    IN  sort_values_desc(grouped, "total_revenue")

\* Variant: the denominator as it is, zero included.
replace_zero_skipped(c) == <<c>>

\* Series.replace(0, pd.NA)
replace_zero(c) == IF c = 0 THEN NA ELSE <<c>>

\* total_revenue / customers, element by element: a quotient by pd.NA is pd.NA.
truediv(a, b) == IF b = NA THEN NA ELSE << Quot(a, b[1]) >>

QuotLeq(x, y) == x.num * y.den <= y.num * x.den

\* sort_values("avg_revenue_per_customer", ascending=False): the defined values
\* non-increasing (ties in any order), then the missing ones, in the order they had.
RECURSIVE orderings_avg(_)
orderings_avg(S) ==
    IF S = {} THEN { <<>> }
    ELSE LET top == { r \in S : \A q \in S :
                        QuotLeq(q.avg_revenue_per_customer[1], r.avg_revenue_per_customer[1]) }
         IN  UNION { { <<r>> \o rest : rest \in orderings_avg(S \ {r}) } : r \in top }

sort_values_avg(table) ==
    LET missing == SelectSeq(table, LAMBDA r : r.avg_revenue_per_customer = NA)
        defined == { r \in Range(table) : r.avg_revenue_per_customer # NA }
    IN  { o \o missing : o \in orderings_avg(defined) }

create_avg_rev_per_customer_df(frame) ==
    LET keys == group_keys(frame, "rfm_segment")
        avg_df ==
            [ j \in DOMAIN keys |->
                LET g == group(frame, "rfm_segment", keys[j])
                    customers == nunique(g, "customer_unique_id")
                    revenue == sum(g, "order_revenue")
                IN  [ rfm_segment |-> keys[j],
                      customers |-> customers,
                      total_revenue |-> revenue,
                      avg_revenue_per_customer |->
                          truediv(revenue, replace_zero(customers)) ] ]
    IN  sort_values_avg(avg_df)

create_state_perf_df(frame) ==
    LET keys == group_keys(frame, "customer_state")
        grouped ==
            [ j \in DOMAIN keys |->
                LET g == group(frame, "customer_state", keys[j])
                IN  [ customer_state |-> keys[j],
                      total_orders |-> nunique(g, "order_id"),
                      total_revenue |-> sum(g, "order_revenue") ] ]
    IN  sort_values_desc(grouped, "total_revenue")

RfmRevenue ==
    /\ pc = "rfm_revenue"
    /\ seg_rev_df' \in create_rfm_revenue_df(df_f)
    /\ page' = Append(page, "plotly_chart")
    /\ pc' = "rfm_segment"
    /\ UNCHANGED <<env, loaded, sidebar, df_f, kpis, seg_cnt_df, avg_rev_df, statev,
                   df_map, prev_map>>

RfmSegment ==
    /\ pc = "rfm_segment"
    /\ seg_cnt_df' \in create_rfm_segment_df(df_f)
    /\ page' = Append(page, "plotly_chart")
    /\ pc' = "rfm_avg"
    /\ UNCHANGED <<env, loaded, sidebar, df_f, kpis, seg_rev_df, avg_rev_df, statev,
                   df_map, prev_map>>

RfmAvg ==
    /\ pc = "rfm_avg"
    /\ avg_rev_df' \in create_avg_rev_per_customer_df(df_f)
    /\ page' = Append(page, "plotly_chart")
    /\ pc' = "state"
    /\ UNCHANGED <<env, loaded, sidebar, df_f, kpis, seg_rev_df, seg_cnt_df, statev,
                   df_map, prev_map>>

\* Rows of the two state charts.
TopN == 10

\* Variant: the chart by orders sorts the ten rows of the chart by revenue.
top_by_orders_of_head(table) ==
    { [ full |-> o, shown |-> head(o, TopN) ] :
        o \in sort_values_desc(head(table, TopN), "total_orders") }

\* The chart by orders sorts the table the chart by revenue was cut from.
top_by_orders(table) ==
    { [ full |-> o, shown |-> head(o, TopN) ] : o \in sort_values_desc(table, "total_orders") }

StatePerformance ==
    /\ pc = "state"
    /\ state_perf' \in create_state_perf_df(df_f)
    /\ fig4' = head(state_perf', TopN)
    /\ \E v \in top_by_orders(state_perf') :
          /\ state_perf_by_orders' = v.full
          /\ fig5' = v.shown
    /\ page' = page \o << "plotly_chart", "plotly_chart" >>
    /\ pc' = "map"
    /\ UNCHANGED <<env, loaded, sidebar, df_f, kpis, rfm, df_map, prev_map>>

---------------------------------------------------------------------------
\* Optional map

\* Markers on the map at most, and the seed of the sample.
SampleSize == 3000
Seed == 42

dropna_geo(frame) ==
    SelectSeq(frame, LAMBDA r : r.geolocation_lat # NaNf /\ r.geolocation_lng # NaNf)

\* RandomState(s).permutation(n): a permutation of the positions 1..n that the
\* generator's state fixes.  The generator itself is numpy's; the model stands a
\* rotation in for it.
permutation(n, s) == [ i \in 1..n |-> ((s + i - 1) % n) + 1 ]

\* DataFrame.sample(n, random_state=s): the rows at the first n positions drawn.
sample(frame, n, s) ==
    LET drawn == permutation(Len(frame), s)
    IN  [ i \in 1..n |-> frame[drawn[i]] ]

\* Variant: df_map.sample(3000), drawn from the process-global generator, which
\* advances.
map_sample_unseeded(frame, g) ==
    [ frame |-> sample(frame, SampleSize, g), global |-> g + SampleSize ]

\* df_map.sample(3000, random_state=42): a generator of its own, seeded on every
\* call; the process-global generator g is not read and does not advance.
map_sample(frame, g) ==
    [ frame |-> sample(frame, SampleSize, Seed), global |-> g ]

CustomerMap ==
    /\ pc = "map"
    /\ IF {"geolocation_lat", "geolocation_lng"} \subseteq columns
          /\ Len(dropna_geo(df_f)) > 0
       THEN LET valid == dropna_geo(df_f)
                drawn == IF Len(valid) > SampleSize
                         THEN map_sample(valid, np_random)
                         ELSE [ frame |-> valid, global |-> np_random ]
            IN  /\ df_map' = drawn.frame
                /\ np_random' = drawn.global
                /\ prev_map' = << [ input |-> valid, output |-> drawn.frame ] >>
                /\ page' = Append(page, "st_folium")
       ELSE /\ df_map' = <<>>
            /\ np_random' = np_random
            /\ prev_map' = prev_map
            /\ page' = Append(page, "info")
    /\ pc' = "done"
    /\ UNCHANGED <<files, cache, ui, loaded, sidebar, df_f, kpis, rfm, statev>>

---------------------------------------------------------------------------
\* The user changes a widget: Streamlit runs the script again from its first
\* line, with the widgets returning the values chosen.  The date picker offers
\* the days from min_value to max_value, the select boxes their options.

Rerun ==
    /\ pc = "done"
    /\ \E s \in min_date..max_date, e \in min_date..max_date,
          st \in Range(state_opt), sg \in Range(seg_opt) :
            ui' = << [ start_date |-> s, end_date |-> e, state |-> st, seg |-> sg ] >>
    /\ pc' = "discover"
    /\ page' = <<>>
    /\ DATA_PATH' = MAIN_DATA
    /\ columns' = {} /\ df' = <<>>
    /\ min_date' = 0 /\ max_date' = 0 /\ start_date' = 0 /\ end_date' = 0
    /\ state_opt' = <<>> /\ state' = ALL /\ seg_opt' = <<>> /\ seg' = ALL
    /\ df_f' = <<>>
    /\ total_revenue' = 0 /\ total_orders' = 0 /\ total_customers' = 0
    /\ aov' = Zero
    /\ seg_rev_df' = <<>> /\ seg_cnt_df' = <<>> /\ avg_rev_df' = <<>>
    /\ state_perf' = <<>> /\ fig4' = <<>> /\ state_perf_by_orders' = <<>> /\ fig5' = <<>>
    /\ df_map' = <<>>
    /\ UNCHANGED <<files, cache, np_random, prev_map>>

Next ==
    \/ Discover
    \/ LoadData
    \/ Sidebar
    \/ FilterMain
    \/ Kpi
    \/ RfmRevenue
    \/ RfmSegment
    \/ RfmAvg
    \/ StatePerformance
    \/ CustomerMap
    \/ Rerun

---------------------------------------------------------------------------
\* Datasets

\* Free rows of a dataset at most.
MaxRows == 2

BaseColumns ==
    { "order_id", "customer_unique_id", "customer_state", "rfm_segment",
      "order_revenue", "order_purchase_timestamp" }
GeoColumns == { "geolocation_lat", "geolocation_lng" }

Row(oid, cust, st, sg, rev, ts, lat, lng) ==
    [ order_id |-> oid, customer_unique_id |-> cust, customer_state |-> st,
      rfm_segment |-> sg, order_revenue |-> rev, order_purchase_timestamp |-> ts,
      geolocation_lat |-> lat, geolocation_lng |-> lng ]

\* The rows of a file with their index labels (1, 2, ... in file order).
frame_of(rows) == [ i \in DOMAIN rows |-> [ index |-> i ] @@ rows[i] ]

Dataset(cols, rows) == [ columns |-> cols, rows |-> frame_of(rows) ]

SeqsUpTo(R, n) == UNION { [ 1..k -> R ] : k \in 0..n }

\* The last tick of day d.
Evening(d) == d * TicksPerDay + (TicksPerDay - 1)

Days == { 0, 1 }

\* Filter family: a first row in the morning of day 0, then free rows that vary
\* in timestamp, state and segment.
FilterRows ==
    { Row("o", "c", st, sg, 1, ts, NaNf, NaNf) :
        st \in { NaN, "AL" }, sg \in { NaN, "At Risk" },
        ts \in { NaT } \cup { Evening(d) : d \in Days } }

FilterFamily ==
    { Dataset(BaseColumns, << Row("o", "c", "AC", "Champions", 1, 0, NaNf, NaNf) >> \o rows) :
        rows \in SeqsUpTo(FilterRows, MaxRows) }

\* RFM family: rows that vary in segment, customer and revenue; a customer's rows
\* are rows of one order, and a row without a customer has no order id either.
RfmRows ==
    { Row(cust, cust, NaN, sg, rev, 0, NaNf, NaNf) :
        cust \in { NaN, "c1", "c2" }, sg \in { NaN, "At Risk", "Champions" },
        rev \in { 50, 100 } }

RfmFamily ==
    { Dataset(BaseColumns, rows) : rows \in SeqsUpTo(RfmRows, MaxRows) \ { <<>> } }

\* State family: TopN + 1 states, the i-th with i orders and a revenue that falls
\* with i, so that the two charts order them in opposite ways; then free rows.
StateCodes ==
    << "AC", "AL", "AM", "AP", "BA", "CE", "DF", "ES", "GO", "MA", "MG", "MS" >>

RECURSIVE StateBlocks(_)
StateBlocks(i) ==
    IF i = 0 THEN <<>>
    ELSE StateBlocks(i - 1) \o
         [ j \in 1..i |->
             Row(ToString(100 * i + j), "c", StateCodes[i], "Champions",
                 IF j = 1 THEN TopN + 2 - i ELSE 0, 0, NaNf, NaNf) ]

\* Free rows after the blocks at most.
StateExtraRows == 1

StateRows ==
    { Row(oid, "c", st, "Champions", rev, 0, NaNf, NaNf) :
        oid \in { NaN, "101", "new" },
        st \in { NaN, StateCodes[1], StateCodes[TopN + 2] },
        rev \in { 0, 20 } }

StateFamily ==
    { Dataset(BaseColumns, StateBlocks(TopN + 1) \o rows) :
        rows \in SeqsUpTo(StateRows, StateExtraRows) }

\* Map family: small datasets with and without the coordinate columns, and
\* datasets of about SampleSize rows, some before and some beyond the limit.
MapRows ==
    { Row("o", "c", "AC", "Champions", 1, 0, lat, lng) :
        lat \in { NaNf, 1 }, lng \in { NaNf, 2 } }

LargeRows(n, missing, elsewhere) ==
    [ i \in 1..n |->
        Row("o", "c", IF i = n /\ elsewhere THEN "AL" ELSE "AC", "Champions", 1, 0,
            IF i <= missing THEN NaNf ELSE 1, 2) ]

MapFamily ==
    { Dataset(cols, rows) :
        cols \in { BaseColumns, BaseColumns \cup GeoColumns },
        rows \in SeqsUpTo(MapRows, MaxRows) \ { <<>> } }
    \cup
    { Dataset(BaseColumns \cup GeoColumns, LargeRows(SampleSize + extra, missing, elsewhere)) :
        extra \in 0..MaxRows, missing \in { 0, 1 }, elsewhere \in BOOLEAN }

\* Discovery family: directories that hold any of these files, each with a
\* content of its own.
Name_a == << 97 >> \o DotCsv
Name_a_b == << 97, 45, 98 >> \o DotCsv
Name_b == << 98 >> \o DotCsv
Name_Z == << 90 >> \o DotCsv
Name_a_txt == << 97, 46, 116, 120, 116 >>
FileNames == << MAIN_DATA, Name_a, Name_a_b, Name_b, Name_Z, Name_a_txt >>

Content(k) ==
    Dataset(BaseColumns, << Row("o", "c", "AC", "Champions", k, 0, NaNf, NaNf) >>)

Directories ==
    { [ n \in { FileNames[k] : k \in K } |->
          Content(CHOOSE k \in K : FileNames[k] = n) ] : K \in SUBSET DOMAIN FileNames }

\* Seeds of the process-global generator at most.
MaxEntropy == 1

Init0(dir, entropy) ==
    /\ files = dir
    /\ cache = <<>>
    /\ ui = <<>>
    /\ np_random = entropy
    /\ pc = "discover"
    /\ FreshRun
    /\ prev_map = <<>>

InitFilter == \E d \in FilterFamily : Init0(MAIN_DATA :> d, 0)
InitRfm == \E d \in RfmFamily : Init0(MAIN_DATA :> d, 0)
InitState == \E d \in StateFamily : Init0(MAIN_DATA :> d, 0)
InitMap == \E d \in MapFamily, g \in 0..MaxEntropy : Init0(MAIN_DATA :> d, g)
InitDiscovery == \E dir \in Directories : Init0(dir, 0)

Init == InitFilter \/ InitRfm \/ InitState \/ InitMap \/ InitDiscovery

Spec == Init /\ [][Next]_vars
SpecFilter == InitFilter /\ [][Next]_vars
SpecRfm == InitRfm /\ [][Next]_vars
SpecState == InitState /\ [][Next]_vars
SpecMap == InitMap /\ [][Next]_vars
SpecDiscovery == InitDiscovery /\ [][Next]_vars

---------------------------------------------------------------------------
\* Properties

Steps ==
    << "discover", "load", "sidebar", "filter", "kpi", "rfm_revenue", "rfm_segment",
       "rfm_avg", "state", "map", "done" >>

StepNo(p) == CHOOSE i \in DOMAIN Steps : Steps[i] = p

\* The step that starts at position p has run in this run of the script.
Ran(p) == pc # "stopped" /\ StepNo(pc) > StepNo(p)

Values(frame, col) == { frame[i][col] : i \in DOMAIN frame } \ {NaN}

NonIncreasing(table, col) ==
    \A i, j \in DOMAIN table : i < j => table[i][col] >= table[j][col]

\* The filter's predicate, as the specification words it.
Kept(r) ==
    /\ r.order_purchase_timestamp # NaT
    /\ start_date <= date(r.order_purchase_timestamp)
    /\ date(r.order_purchase_timestamp) <= end_date
    /\ (state = ALL \/ r.customer_state = state)
    /\ (seg = ALL \/ r.rfm_segment = seg)

\* C1: the filtered dataset holds a row of the dataset if and only if its purchase
\* date lies in [start_date, end_date], its state is the one selected (or "(All)"
\* is selected) and its segment is the one selected (or "(All)" is selected); a
\* row without a purchase timestamp is never kept.
C1_FilterKeepsExactly ==
    Ran("filter") =>
        /\ \A r \in Range(df) : (r \in Range(df_f)) <=> Kept(r)
        /\ Range(df_f) \subseteq Range(df)
        /\ Len(df_f) = Cardinality(Range(df_f))
        /\ \A r \in Range(df_f) : r.order_purchase_timestamp # NaT

C1_Witness ==
    /\ Ran("filter")
    /\ state # ALL /\ seg # ALL
    /\ df_f # <<>>
    /\ \E r \in Range(df) : r.order_purchase_timestamp = NaT
    /\ \E r \in Range(df) \ Range(df_f) : r.order_purchase_timestamp # NaT

\* C2: with start_date > end_date the run completes, the filtered dataset is
\* empty, each of the four aggregations returns a table without rows and the
\* four KPIs are 0.
C2_EmptyRange ==
    (pc = "done" /\ start_date > end_date) =>
        /\ df_f = <<>>
        /\ seg_cnt_df = <<>> /\ seg_rev_df = <<>> /\ avg_rev_df = <<>> /\ state_perf = <<>>
        /\ total_revenue = 0 /\ total_orders = 0 /\ total_customers = 0
        /\ aov = Zero

C2_Witness ==
    /\ pc = "done"
    /\ start_date > end_date
    /\ Len(df) >= 2
    /\ state # ALL

\* C3: the total_revenue values of the Segment Revenue table add up to the
\* order_revenue of the filtered rows whose rfm_segment is not missing.
C3_RevenueConserved ==
    Ran("rfm_revenue") =>
        sum(seg_rev_df, "total_revenue")
            = sum(SelectSeq(df_f, LAMBDA r : r.rfm_segment # NaN), "order_revenue")

C3_Witness ==
    /\ Ran("rfm_revenue")
    /\ seg_rev_df # <<>>
    /\ \E r \in Range(df_f) : r.rfm_segment = NaN /\ r.order_revenue > 0

\* C4: the Segment Customer Count table has one row for each distinct rfm_segment
\* present in the filtered dataset, and the row's customers is the number of
\* distinct customer_unique_id values among the rows of the segment.
C4_DistinctCustomers ==
    Ran("rfm_segment") =>
        /\ { seg_cnt_df[i].rfm_segment : i \in DOMAIN seg_cnt_df } = Values(df_f, "rfm_segment")
        /\ Len(seg_cnt_df) = Cardinality(Values(df_f, "rfm_segment"))
        /\ \A i \in DOMAIN seg_cnt_df :
              seg_cnt_df[i].customers =
                  Cardinality({ r.customer_unique_id :
                                  r \in { q \in Range(df_f) :
                                            q.rfm_segment = seg_cnt_df[i].rfm_segment } }
                              \ {NaN})

C4_Witness ==
    /\ Ran("rfm_segment")
    /\ \E i \in DOMAIN seg_cnt_df :
          /\ seg_cnt_df[i].customers = 1
          /\ \E q, r \in Range(df_f) :
                /\ q # r
                /\ q.rfm_segment = seg_cnt_df[i].rfm_segment
                /\ r.rfm_segment = seg_cnt_df[i].rfm_segment
                /\ q.customer_unique_id = r.customer_unique_id
                /\ q.customer_unique_id # NaN

\* C5: in every row of the average-revenue table avg_revenue_per_customer is
\* total_revenue / customers when customers > 0 and is the missing value, which
\* is not 0, when customers = 0; the table still has a row for every segment.
C5_AverageOrMissing ==
    Ran("rfm_avg") =>
        /\ Len(avg_rev_df) = Cardinality(Values(df_f, "rfm_segment"))
        /\ \A i \in DOMAIN avg_rev_df :
              LET row == avg_rev_df[i]
                  avg == row.avg_revenue_per_customer
              IN  /\ row.customers > 0 =>
                        /\ avg # NA
                        /\ avg[1].den > 0
                        /\ avg[1].num * row.customers = row.total_revenue * avg[1].den
                  /\ row.customers = 0 => (avg = NA /\ avg # << Zero >>)

C5_Witness ==
    /\ Ran("rfm_avg")
    /\ \E i, j \in DOMAIN avg_rev_df :
          /\ avg_rev_df[i].customers = 0
          /\ avg_rev_df[i].total_revenue > 0
          /\ avg_rev_df[j].customers > 0

\* C6: the average order value is total_revenue / total_orders when
\* total_orders > 0 and is 0 when total_orders = 0, total_revenue being the sum
\* of order_revenue and total_orders the number of distinct order_id values of
\* the filtered rows.
C6_AverageOrderValue ==
    Ran("kpi") =>
        /\ total_revenue = sum(df_f, "order_revenue")
        /\ total_orders = Cardinality(Values(df_f, "order_id"))
        /\ total_orders > 0 =>
              (aov.den > 0 /\ aov.num * total_orders = total_revenue * aov.den)
        /\ total_orders = 0 => aov = Zero

C6_Witness ==
    /\ Ran("kpi")
    /\ df_f # <<>>
    /\ total_orders = 0
    /\ total_revenue > 0

\* The state's row of the State Performance table, recomputed from the filtered rows.
StateTotals(st) ==
    LET g == SelectSeq(df_f, LAMBDA r : r.customer_state = st)
    IN  [ customer_state |-> st,
          total_orders |-> Cardinality(Values(g, "order_id")),
          total_revenue |-> sum(g, "order_revenue") ]

\* C7: the view by orders is a reordering of the table create_state_perf_df
\* returned: both hold one row for each distinct state with its distinct-order
\* count and its revenue; the table is in non-increasing total_revenue order, the
\* view in non-increasing total_orders order, and the chart by orders shows the
\* first 10 rows of the whole table sorted again.
C7_OneTableTwoOrders ==
    Ran("state") =>
        /\ Range(state_perf) = { StateTotals(st) : st \in Values(df_f, "customer_state") }
        /\ Len(state_perf) = Cardinality(Values(df_f, "customer_state"))
        /\ Range(state_perf_by_orders) = Range(state_perf)
        /\ Len(state_perf_by_orders) = Len(state_perf)
        /\ NonIncreasing(state_perf, "total_revenue")
        /\ NonIncreasing(state_perf_by_orders, "total_orders")
        /\ fig4 = SubSeq(state_perf, 1, Min2(TopN, Len(state_perf)))
        /\ fig5 = SubSeq(state_perf_by_orders, 1, Min2(TopN, Len(state_perf)))
        /\ \A r \in Range(fig5), q \in Range(state_perf) \ Range(fig5) :
              q.total_orders <= r.total_orders

C7_Witness ==
    /\ Ran("state")
    /\ Len(state_perf) > TopN
    /\ \E r \in Range(fig5) : r \notin Range(fig4)
    /\ \E r \in Range(fig4) : r \notin Range(fig5)

\* C8: with both coordinate columns and n >= 1 filtered rows that have both
\* coordinates, the plotted rows are min(n, 3000) distinct rows among those n, and
\* the step run again on the same rows plots the same set.
C8_State ==
    (pc = "done" /\ GeoColumns \subseteq columns /\ Len(dropna_geo(df_f)) >= 1) =>
        LET valid == dropna_geo(df_f)
        IN  /\ Range(df_map) \subseteq Range(valid)
            /\ Len(df_map) = Min2(Len(valid), SampleSize)
            /\ Cardinality(Range(df_map)) = Len(df_map)

C8_Repeat ==
    ( /\ pc = "map" /\ pc' = "done"
      /\ prev_map # <<>>
      /\ prev_map[1].input = dropna_geo(df_f)
      /\ GeoColumns \subseteq columns )
    => Range(df_map') = Range(prev_map[1].output)

C8_SampleSizeAndRepeat == [] C8_State /\ [][C8_Repeat]_vars

C8_Witness ==
    /\ pc = "map"
    /\ prev_map # <<>>
    /\ prev_map[1].input = dropna_geo(df_f)
    /\ Len(prev_map[1].input) > SampleSize
    /\ Len(prev_map[1].output) = SampleSize

\* C9: main_data.csv is loaded if it exists; otherwise the first .csv file in
\* lexicographic order is; with no .csv file the absence is reported and the run
\* halts: nothing is loaded, filtered, aggregated or rendered after the report.
C9_State ==
    LET csvs == glob_csv(files)
        found == MAIN_DATA \in DOMAIN files
    IN  /\ (pc # "discover" /\ found) => (pc # "stopped" /\ DATA_PATH = MAIN_DATA)
        /\ (pc # "discover" /\ ~found /\ csvs # {}) =>
              /\ pc # "stopped"
              /\ DATA_PATH \in csvs
              /\ \A n \in csvs \ {DATA_PATH} : PathLess(DATA_PATH, n)
        /\ Ran("load") =>
              /\ [ columns |-> columns, rows |-> df ] = files[DATA_PATH]
              /\ DOMAIN cache = {DATA_PATH}
        /\ (pc # "discover" /\ ~found /\ csvs = {}) =>
              /\ pc = "stopped"
              /\ page = << "error" >>
              /\ cache = <<>>
              /\ df = <<>> /\ df_f = <<>>
              /\ seg_rev_df = <<>> /\ seg_cnt_df = <<>> /\ avg_rev_df = <<>>
              /\ state_perf = <<>> /\ fig4 = <<>> /\ fig5 = <<>> /\ df_map = <<>>
              /\ total_revenue = 0 /\ total_orders = 0 /\ total_customers = 0
        /\ pc = "stopped" => (~found /\ csvs = {})

C9_Discovery == [] C9_State /\ [][pc # "stopped"]_vars

C9_Witness ==
    /\ pc = "done"
    /\ MAIN_DATA \notin DOMAIN files
    /\ Cardinality(glob_csv(files)) >= 3
    /\ Cardinality(DOMAIN files) > Cardinality(glob_csv(files))

\* The position of the first filtered row of a segment.
FirstSeen(sg) == SetMin({ i \in DOMAIN df_f : df_f[i].rfm_segment = sg })

\* C10 as amended: the rows of the Segment Customer Count table are in
\* non-increasing order of customers (the order of segments with equal customers
\* is not the order of first appearance).
C10_NonIncreasing ==
    Ran("rfm_segment") => NonIncreasing(seg_cnt_df, "customers")

C10_Witness ==
    /\ Ran("rfm_segment")
    /\ \E i, j \in DOMAIN seg_cnt_df :
          i < j /\ seg_cnt_df[i].customers > seg_cnt_df[j].customers

\* C10 as stated: non-increasing order of customers, and segments with equal
\* customers in the order in which their keys are first seen.
C10_TiesFirstSeen ==
    Ran("rfm_segment") =>
        \A i, j \in DOMAIN seg_cnt_df :
            i < j =>
                /\ seg_cnt_df[i].customers >= seg_cnt_df[j].customers
                /\ seg_cnt_df[i].customers = seg_cnt_df[j].customers =>
                      FirstSeen(seg_cnt_df[i].rfm_segment)
                          < FirstSeen(seg_cnt_df[j].rfm_segment)

====
